---- MODULE Spec2Model ----
(***************************************************************************)
(* Model of reservas/services.py (GestorRecursos) together with the JSON   *)
(* API of reservas/views.py and the tables of reservas/models.py.          *)
(*                                                                         *)
(* The database is a transactional store: `db` holds the committed rows,   *)
(* tx[w] the uncommitted writes and the local Python variables of the      *)
(* call that worker w is serving.  Recurso.objects.select_for_update()     *)
(* takes the row lock `bloqueo[r]`, which is held until the                *)
(* @transaction.atomic block of the service method commits or rolls back.  *)
(***************************************************************************)
EXTENDS Integers, Sequences, FiniteSets, TLC

\* ------------------------------------------------------------------ bounds
\* number of Reserva rows, committed or being inserted
MaxReservas == 2
\* largest ts_cliente a client reports
MaxTs == 2

\* ------------------------------------------------------------ the universe
\* the server's request handlers
Workers == {"w1", "w2"}
Recursos == {1, 2}
Clientes == {1, 2}
TsClientes == {0, MaxTs}

\* None: the value of a nullable foreign key or DateTimeField that is not set
None == <<>>

\* timezone.now(): a DateTimeField that is set
timezone_now == <<"now">>

\* Cliente.identificador_externo, a string, as its sequence of character
\* codes: client 1 is "9", client 2 is "10"
identificador_externo(c) == IF c = 1 THEN <<57>> ELSE <<49, 48>>

\* string comparison as ORDER BY prioridad_id does it: code by code, a proper
\* prefix first
RECURSIVE StrMenor(_, _)
StrMenor(s, t) ==
    IF t = <<>> THEN FALSE
    ELSE IF s = <<>> THEN TRUE
    ELSE IF Head(s) /= Head(t) THEN Head(s) < Head(t)
    ELSE StrMenor(Tail(s), Tail(t))

Maximo(S) == CHOOSE x \in S : \A y \in S : y <= x

VARIABLES
    db,        \* committed rows: recursos, reservas, eventos.  A Reserva id is
               \* <<r, k>>, the k-th row inserted for resource r; eventos[r] are
               \* the Evento rows of resource r's reservations, in insertion order
    pc,        \* per worker: the statement it is about to run
    tx,        \* per worker: call arguments, local variables, uncommitted writes
               \* (solicitar_reserva's cliente and ts_cliente are kept up to
               \* their last use)
    ret,       \* per worker: what the service call returned (or "error")
    bloqueo    \* per resource: the worker holding the row lock, or "libre"

vars == <<db, pc, tx, ret, bloqueo>>

\* --------------------------------------------------------------- the tables
\* Recurso row (models.py): default estado_recurso, null reserva_actual
RecursoNuevo(e) == [estado_recurso |-> e, reserva_actual |-> None]

\* a worker that serves no call
TxVacia ==
    [op |-> "ninguna", recurso_id |-> 0, cliente |-> 0, ts_cliente |-> 0,
     recurso |-> RecursoNuevo("DISPONIBLE"), reserva |-> None,
     filas |-> <<>>, fila_recurso |-> <<>>, eventos |-> <<>>, enviado |-> FALSE]

\* the Reserva rows as transaction w sees them: committed rows overlaid with
\* its own uncommitted inserts and updates
Reservas(w) == tx[w].filas @@ db.reservas

\* Reserva.objects.filter(recurso=r, ...) over a set of rows
DeRecurso(filas, r) == {id \in DOMAIN filas : filas[id].recurso = r}

ConEstado(filas, r, e) == {id \in DeRecurso(filas, r) : filas[id].estado = e}

\* (mutant) ORDER BY reloj_lamport alone
OrdenCola_sin_desempate(a, b) == a.reloj_lamport < b.reloj_lamport

\* ORDER BY reloj_lamport, prioridad_id: row a sorts before row b
OrdenCola(a, b) ==
    \/ a.reloj_lamport < b.reloj_lamport
    \/ /\ a.reloj_lamport = b.reloj_lamport
       /\ StrMenor(a.prioridad_id, b.prioridad_id)

Init ==
    /\ db = [recursos |-> [r \in Recursos |-> RecursoNuevo("DISPONIBLE")],
             reservas |-> <<>>,
             eventos |-> [r \in Recursos |-> <<>>]]
    /\ pc = [w \in Workers |-> "idle"]
    /\ tx = [w \in Workers |-> TxVacia]
    /\ ret = [w \in Workers |-> "-"]
    /\ bloqueo = [r \in Recursos |-> "libre"]

\* the Reserva rows that exist or are about to: committed, inserted by a
\* running transaction, or still to be inserted by a call that has begun
PorCrear == {w \in Workers : tx[w].op = "solicitar" /\ pc[w] \in {"lock", "s_crear"}}

\* the rows a SOLICITUD event records: those solicitar_reserva has inserted
\* and committed
Solicitadas ==
    UNION {{db.eventos[r][i].reserva :
                i \in {k \in 1 .. Len(db.eventos[r]) :
                           db.eventos[r][k].tipo_evento = "SOLICITUD"}} : r \in Recursos}

\* rows loaded as data (Reserva is a plain table: fixtures, the admin site):
\* committed rows that no SOLICITUD event records
Cargadas == DOMAIN db.reservas \ Solicitadas

\* rows inserted by solicitar_reserva: committed, or inserted by a running
\* transaction
Insertadas ==
    Solicitadas \cup UNION {DOMAIN tx[w].filas \ DOMAIN db.reservas : w \in Workers}

\* ------------------------------------------------------- views.py: the API
\* solicitar_reserva_api: POST /api/recursos/<r>/solicitar/ with a known
\* cliente_id and an integer ts_cliente; calls GestorRecursos.solicitar_reserva
solicitar_reserva_api(w, r, c, ts) ==
    /\ pc[w] = "idle"
    /\ Cardinality(Insertadas) + Cardinality(PorCrear) < MaxReservas
    /\ pc' = [pc EXCEPT ![w] = "lock"]
    /\ tx' = [tx EXCEPT ![w] = [TxVacia EXCEPT !.op = "solicitar",
                                  !.recurso_id = r, !.cliente = c, !.ts_cliente = ts]]
    /\ UNCHANGED <<db, ret, bloqueo>>

\* a resource id and a client id that name no row
RecursosPedidos == Recursos \cup {Cardinality(Recursos) + 1}
ClientesPedidos == Clientes \cup {Cardinality(Clientes) + 1}

\* a JSON value for 'ts_cliente': absent, an integer, or a string
ValorJson(tipo, num, str) == [tipo |-> tipo, num |-> num, str |-> str]

\* absent, 0, MaxTs, "abc", "2"
TsCuerpo ==
    {ValorJson("falta", 0, <<>>), ValorJson("int", 0, <<>>), ValorJson("int", MaxTs, <<>>),
     ValorJson("str", 0, <<97, 98, 99>>), ValorJson("str", 0, <<50>>)}

\* the bodies of a POST: bytes that json.loads rejects (json = FALSE), or an
\* object whose 'cliente_id' is absent (0: `not cliente_id`) or an id, with a
\* 'ts_cliente'
Cuerpos ==
    [json : BOOLEAN, cliente_id : {0} \cup ClientesPedidos, ts_cliente : TsCuerpo]

\* the value of a string of decimal digits
RECURSIVE ValorDecimal(_)
ValorDecimal(s) ==
    IF s = <<>> THEN 0
    ELSE ValorDecimal(SubSeq(s, 1, Len(s) - 1)) * 10 + (s[Len(s)] - 48)

\* int(payload.get('ts_cliente', 0)): the default for an absent key, an int as
\* it is, a string of digits as its value; any other string raises ValueError
int_ts_cliente(v) ==
    CASE v.tipo = "falta" -> [ok |-> TRUE, valor |-> 0]
      [] v.tipo = "int" -> [ok |-> TRUE, valor |-> v.num]
      [] v.tipo = "str" ->
            IF v.str /= <<>> /\ \A i \in 1 .. Len(v.str) : v.str[i] \in 48 .. 57
            THEN [ok |-> TRUE, valor |-> ValorDecimal(v.str)]
            ELSE [ok |-> FALSE, valor |-> 0]

\* views.py lines 101-116 and services.py line 36, in the order they run: the
\* response to a POST on resource r with this body ("ok": the request goes on
\* in solicitar_reserva).  An exception no handler catches is a 500
respuesta_solicitar(r, cuerpo) ==
    IF ~cuerpo.json THEN "400"
    ELSE IF ~int_ts_cliente(cuerpo.ts_cliente).ok THEN "500"
    ELSE IF cuerpo.cliente_id = 0 THEN "400"
    ELSE IF cuerpo.cliente_id \notin Clientes THEN "404"
    ELSE IF r \notin Recursos THEN "500"
    ELSE "ok"

\* solicitar_reserva_api answering with an error: nothing is written (for an
\* unknown resource the atomic block of solicitar_reserva is entered and left
\* by Recurso.DoesNotExist before any row is locked)
solicitar_reserva_api_error(w, r, cuerpo) ==
    /\ pc[w] = "idle"
    /\ respuesta_solicitar(r, cuerpo) /= "ok"
    /\ pc' = [pc EXCEPT ![w] = "retorno"]
    /\ tx' = [tx EXCEPT ![w] = [TxVacia EXCEPT !.op = "solicitar"]]
    /\ ret' = [ret EXCEPT ![w] = respuesta_solicitar(r, cuerpo)]
    /\ UNCHANGED <<db, bloqueo>>

\* liberar_reserva_api: POST /api/recursos/<r>/liberar/ with a known cliente_id;
\* calls GestorRecursos.liberar_reserva
liberar_reserva_api(w, r, c) ==
    /\ pc[w] = "idle"
    /\ pc' = [pc EXCEPT ![w] = "lock"]
    /\ tx' = [tx EXCEPT ![w] = [TxVacia EXCEPT !.op = "liberar",
                                  !.recurso_id = r, !.cliente = c]]
    /\ UNCHANGED <<db, ret, bloqueo>>

\* the JsonResponse (or the error page) is sent; the worker is free again
Responder(w) ==
    /\ pc[w] = "retorno"
    /\ pc' = [pc EXCEPT ![w] = "idle"]
    /\ tx' = [tx EXCEPT ![w] = TxVacia]
    /\ ret' = [ret EXCEPT ![w] = "-"]
    /\ UNCHANGED <<db, bloqueo>>

\* 'liberada': bool(reserva) of liberar_reserva_api's response
liberada(w) == ret[w] = "reserva"

\* -------------------------------------------- services.py: both operations
\* (mutant) a plain .get(id=recurso_id): the row is read without its lock
select_for_update_sin_bloqueo(w) ==
    /\ pc[w] = "lock"
    /\ bloqueo' = [bloqueo EXCEPT ![tx[w].recurso_id] = w]
    /\ tx' = [tx EXCEPT ![w].recurso = db.recursos[tx[w].recurso_id]]
    /\ pc' = [pc EXCEPT ![w] = IF tx[w].op = "solicitar" THEN "s_crear" ELSE "l_buscar"]
    /\ UNCHANGED <<db, ret>>

\* (mutant) one lock for the whole table instead of one per row
select_for_update_global(w) ==
    /\ pc[w] = "lock"
    /\ \A r \in Recursos : bloqueo[r] = "libre"
    /\ bloqueo' = [bloqueo EXCEPT ![tx[w].recurso_id] = w]
    /\ tx' = [tx EXCEPT ![w].recurso = db.recursos[tx[w].recurso_id]]
    /\ pc' = [pc EXCEPT ![w] = IF tx[w].op = "solicitar" THEN "s_crear" ELSE "l_buscar"]
    /\ UNCHANGED <<db, ret>>

\* Recurso.objects.select_for_update().get(id=recurso_id): waits for the row
\* lock, then reads the committed row into the local variable recurso
select_for_update(w) ==
    /\ pc[w] = "lock"
    /\ bloqueo[tx[w].recurso_id] = "libre"
    /\ bloqueo' = [bloqueo EXCEPT ![tx[w].recurso_id] = w]
    /\ tx' = [tx EXCEPT ![w].recurso = db.recursos[tx[w].recurso_id]]
    /\ pc' = [pc EXCEPT ![w] = IF tx[w].op = "solicitar" THEN "s_crear" ELSE "l_buscar"]
    /\ UNCHANGED <<db, ret>>

\* ------------------------------------------------------- solicitar_reserva
\* (mutant) the highest reloj_lamport is looked for among the waiting rows only
last_ts_en_cola(w) ==
    LET filas == Reservas(w)
        S == {filas[id].reloj_lamport : id \in ConEstado(filas, tx[w].recurso_id, "EN_COLA")}
    IN  IF S = {} THEN 0 ELSE Maximo(S)

\* last_ts: Max('reloj_lamport') over the resource's rows, `or 0`
last_ts(w) ==
    LET filas == Reservas(w)
        S == {filas[id].reloj_lamport : id \in DeRecurso(filas, tx[w].recurso_id)}
    IN  IF S = {} THEN 0 ELSE Maximo(S)

\* (mutant) the increment is missing
reloj_lamport_sin_incremento(w) == Maximo({tx[w].ts_cliente, last_ts(w)})

\* (mutant) the client's timestamp alone stamps the request
reloj_lamport_del_cliente(w) == tx[w].ts_cliente + 1

\* reloj_lamport = max(ts_cliente or 0, last_ts) + 1
reloj_lamport(w) == Maximo({tx[w].ts_cliente, last_ts(w)}) + 1

\* (mutant) the test is inverted
estado_solicitud_invertido(w) ==
    IF tx[w].recurso.estado_recurso = "DISPONIBLE" THEN "EN_COLA" ELSE "ACTIVA"

\* (mutant) every request is granted at once
estado_solicitud_siempre_activa(w) == "ACTIVA"

\* (mutant) only an OCUPADO resource makes a request wait
estado_solicitud_no_ocupado(w) ==
    IF tx[w].recurso.estado_recurso /= "OCUPADO" THEN "ACTIVA" ELSE "EN_COLA"

\* lines 53-58: the status the new Reserva gets
estado_solicitud(w) ==
    IF tx[w].recurso.estado_recurso = "DISPONIBLE" THEN "ACTIVA" ELSE "EN_COLA"

\* the id the insert gives the new row: the next one of its resource
nuevo_id(w) ==
    <<tx[w].recurso_id, Cardinality(DeRecurso(Reservas(w), tx[w].recurso_id)) + 1>>

\* lines 40-68: stamp the request, decide its status, insert the Reserva row
solicitar_reserva_crear(w) ==
    /\ pc[w] = "s_crear"
    /\ LET estado == estado_solicitud(w)
           fila == [recurso |-> tx[w].recurso_id,
                    cliente |-> tx[w].cliente,
                    reloj_lamport |-> reloj_lamport(w),
                    prioridad_id |-> identificador_externo(tx[w].cliente),
                    estado |-> estado,
                    fecha_concesion |-> IF estado = "ACTIVA" THEN timezone_now ELSE None,
                    fecha_liberacion |-> None]
       IN  tx' = [tx EXCEPT ![w].reserva = nuevo_id(w),
                            ![w].filas = (nuevo_id(w) :> fila) @@ @,
                            ![w].cliente = 0,
                            ![w].recurso.estado_recurso =
                                IF estado = "ACTIVA" THEN "OCUPADO" ELSE @]
    /\ pc' = [pc EXCEPT ![w] = "s_guardar"]
    /\ UNCHANGED <<db, ret, bloqueo>>

\* lines 70-89: an ACTIVA request becomes reserva_actual; recurso.save();
\* Evento SOLICITUD
solicitar_reserva_guardar(w) ==
    /\ pc[w] = "s_guardar"
    /\ LET fila == tx[w].filas[tx[w].reserva]
           recurso == IF fila.estado = "ACTIVA"
                      THEN [tx[w].recurso EXCEPT !.reserva_actual = tx[w].reserva]
                      ELSE tx[w].recurso
       IN  tx' = [tx EXCEPT
                ![w].recurso = recurso,
                ![w].fila_recurso = <<recurso>>,
                ![w].ts_cliente = 0,
                ![w].eventos = Append(@,
                    [reserva |-> tx[w].reserva, tipo_evento |-> "SOLICITUD",
                     ts_cliente |-> tx[w].ts_cliente,
                     estado_resultante |-> fila.estado,
                     reloj_lamport |-> fila.reloj_lamport])]
    /\ pc' = [pc EXCEPT ![w] = "notificar"]
    /\ UNCHANGED <<db, ret, bloqueo>>

\* ------------------------------------------------------- the call returns
\* what is left of call w once its atomic block has ended: which operation it
\* was, on which resource, and the Reserva it returns (None: none); the
\* uncommitted writes are gone, applied or dropped
Retorno(w, reserva) ==
    [tx EXCEPT ![w] = [TxVacia EXCEPT !.op = tx[w].op,
                                      !.recurso_id = tx[w].recurso_id,
                                      !.reserva = reserva]]

\* --------------------------------------------------------- liberar_reserva
\* (mutant) the filter on cliente is missing
activas_de_cualquiera(w) == ConEstado(Reservas(w), tx[w].recurso_id, "ACTIVA")

\* (mutant) the filter on estado is missing: the caller's rows in any status
activas_sin_estado(w) ==
    LET filas == Reservas(w)
    IN  {id \in DeRecurso(filas, tx[w].recurso_id) : filas[id].cliente = tx[w].cliente}

\* (mutant) the filter on recurso is missing: the caller's ACTIVA rows on any
\* resource
activas_en_cualquier_recurso(w) ==
    LET filas == Reservas(w)
    IN  {id \in DOMAIN filas :
            filas[id].estado = "ACTIVA" /\ filas[id].cliente = tx[w].cliente}

\* lines 115-119: the caller's ACTIVA rows on the resource
activas_del_cliente(w) ==
    LET filas == Reservas(w)
    IN  {id \in ConEstado(filas, tx[w].recurso_id, "ACTIVA") :
            filas[id].cliente = tx[w].cliente}

\* .order_by('-fecha_creacion').first(): the candidate inserted last (the rows
\* of one resource are inserted under its lock, so in id order)
mas_reciente(w) ==
    {id \in activas_del_cliente(w) : \A o \in activas_del_cliente(w) : o[2] <= id[2]}

\* (mutant) the early return leaves the row lock taken
liberar_reserva_nada_con_bloqueo(w) ==
    /\ pc[w] = "l_buscar"
    /\ activas_del_cliente(w) = {}
    /\ ret' = [ret EXCEPT ![w] = "None"]
    /\ tx' = Retorno(w, None)
    /\ pc' = [pc EXCEPT ![w] = "retorno"]
    /\ UNCHANGED <<db, bloqueo>>

\* lines 115-123: nothing ACTIVA for this client: return None; the atomic block
\* ends without a write and the row lock is released
liberar_reserva_nada(w) ==
    /\ pc[w] = "l_buscar"
    /\ activas_del_cliente(w) = {}
    /\ bloqueo' = [bloqueo EXCEPT ![tx[w].recurso_id] = "libre"]
    /\ ret' = [ret EXCEPT ![w] = "None"]
    /\ tx' = Retorno(w, None)
    /\ pc' = [pc EXCEPT ![w] = "retorno"]
    /\ UNCHANGED <<db>>

\* lines 115-143: the reservation is found and saved as FINALIZADA with its
\* fecha_liberacion; the local recurso becomes DISPONIBLE (not saved yet);
\* Evento LIBERACION
liberar_reserva_finalizar(w) ==
    /\ pc[w] = "l_buscar"
    /\ \E id \in mas_reciente(w) :
         LET fila == [Reservas(w)[id] EXCEPT
                          !.estado = "FINALIZADA", !.fecha_liberacion = timezone_now]
         IN  tx' = [tx EXCEPT
                ![w].reserva = id,
                ![w].filas = (id :> fila) @@ @,
                ![w].recurso = RecursoNuevo("DISPONIBLE"),
                ![w].eventos = Append(@,
                    [reserva |-> id, tipo_evento |-> "LIBERACION"])]
    /\ pc' = [pc EXCEPT ![w] = "l_promover"]
    /\ UNCHANGED <<db, ret, bloqueo>>

\* (mutant) the queue is searched under the wrong status
siguiente_estado_equivocado(w) ==
    LET filas == Reservas(w)
        cola == ConEstado(filas, tx[w].recurso_id, "ACTIVA")
    IN  {id \in cola : \A o \in cola : ~OrdenCola(filas[o], filas[id])}

\* lines 148-151: .order_by('reloj_lamport', 'prioridad_id').first() over the
\* resource's EN_COLA rows: a row no other EN_COLA row sorts before
siguiente(w) ==
    LET filas == Reservas(w)
        cola == ConEstado(filas, tx[w].recurso_id, "EN_COLA")
    IN  {id \in cola : \A o \in cola : ~OrdenCola(filas[o], filas[id])}

\* (mutant) the promoted request is not recorded as reserva_actual
recurso_concedido_sin_actual(id) == [estado_recurso |-> "OCUPADO", reserva_actual |-> None]

\* lines 158-159: the local recurso once request id is promoted
recurso_concedido(id) == [estado_recurso |-> "OCUPADO", reserva_actual |-> id]

\* (mutant) the promotion is not logged
liberar_reserva_promover_sin_evento(w) ==
    /\ pc[w] = "l_promover"
    /\ IF siguiente(w) = {}
       THEN tx' = [tx EXCEPT ![w].fila_recurso = <<tx[w].recurso>>]
       ELSE \E id \in siguiente(w) :
              LET fila == [Reservas(w)[id] EXCEPT
                               !.estado = "ACTIVA", !.fecha_concesion = timezone_now]
                  recurso == recurso_concedido(id)
              IN  tx' = [tx EXCEPT
                     ![w].filas = (id :> fila) @@ @,
                     ![w].recurso = recurso,
                     ![w].fila_recurso = <<recurso>>]
    /\ pc' = [pc EXCEPT ![w] = "notificar"]
    /\ UNCHANGED <<db, ret, bloqueo>>

\* lines 148-173: promote the head of the queue with Evento CONCESION, or
\* nothing when the queue is empty; then recurso.save()
liberar_reserva_promover(w) ==
    /\ pc[w] = "l_promover"
    /\ IF siguiente(w) = {}
       THEN tx' = [tx EXCEPT ![w].fila_recurso = <<tx[w].recurso>>]
       ELSE \E id \in siguiente(w) :
              LET fila == [Reservas(w)[id] EXCEPT
                               !.estado = "ACTIVA", !.fecha_concesion = timezone_now]
                  recurso == recurso_concedido(id)
              IN  tx' = [tx EXCEPT
                     ![w].filas = (id :> fila) @@ @,
                     ![w].recurso = recurso,
                     ![w].fila_recurso = <<recurso>>,
                     ![w].eventos = Append(@,
                         [reserva |-> id, tipo_evento |-> "CONCESION"])]
    /\ pc' = [pc EXCEPT ![w] = "notificar"]
    /\ UNCHANGED <<db, ret, bloqueo>>

\* ------------------------------------------- transaction.atomic: the ending
\* the committed rows once transaction w's writes are applied
Confirmado(w) ==
    [recursos |-> IF tx[w].fila_recurso = <<>> THEN db.recursos
                  ELSE [db.recursos EXCEPT ![tx[w].recurso_id] = tx[w].fila_recurso[1]],
     reservas |-> Reservas(w),
     eventos |-> [db.eventos EXCEPT ![tx[w].recurso_id] = @ \o tx[w].eventos]]


\* (mutant) no atomic block: the writes made before the exception stay
Rollback_sin_atomic(w) ==
    /\ bloqueo' = [bloqueo EXCEPT ![tx[w].recurso_id] = "libre"]
    /\ tx' = Retorno(w, None)
    /\ ret' = [ret EXCEPT ![w] = "excepcion"]
    /\ pc' = [pc EXCEPT ![w] = "retorno"]
    /\ db' = Confirmado(w)

\* an exception leaves the atomic block: the writes are dropped, the row lock
\* released, and the exception reaches the caller
Rollback(w) ==
    /\ bloqueo' = [bloqueo EXCEPT ![tx[w].recurso_id] = "libre"]
    /\ tx' = Retorno(w, None)
    /\ ret' = [ret EXCEPT ![w] = "excepcion"]
    /\ pc' = [pc EXCEPT ![w] = "retorno"]
    /\ UNCHANGED db

\* the statements of a call that run inside its atomic block
EnTransaccion == {"s_crear", "s_guardar", "l_buscar", "l_promover", "notificar", "commit"}

\* a statement inside the atomic block raises (the storage fails)
Fallar(w) ==
    /\ pc[w] \in EnTransaccion \ {"notificar"}
    /\ Rollback(w)

\* the service method returns its Reserva: the atomic block commits and the
\* row lock is released
Commit(w) ==
    /\ pc[w] = "commit"
    /\ db' = Confirmado(w)
    /\ bloqueo' = [bloqueo EXCEPT ![tx[w].recurso_id] = "libre"]
    /\ tx' = Retorno(w, tx[w].reserva)
    /\ ret' = [ret EXCEPT ![w] = "reserva"]
    /\ pc' = [pc EXCEPT ![w] = "retorno"]

\* ------------------------------------------------- _notificar_cambio_cola
\* lines 193-196: get_channel_layer() is None: return
notificar_sin_capa(w) ==
    /\ pc[w] = "notificar"
    /\ pc' = [pc EXCEPT ![w] = "commit"]
    /\ UNCHANGED <<db, tx, ret, bloqueo>>

\* lines 198-204: group_send hands "cola.actualizada" to group recurso_<id>,
\* whose RecursoConsumer sockets tell their pages to fetch the queue again
notificar_enviar(w) ==
    /\ pc[w] = "notificar"
    /\ tx' = [tx EXCEPT ![w].enviado = TRUE]
    /\ pc' = [pc EXCEPT ![w] = "commit"]
    /\ UNCHANGED <<db, ret, bloqueo>>

\* lines 198-204: group_send raises; nothing catches it on the way out of
\* solicitar_reserva / liberar_reserva
notificar_falla(w) ==
    /\ pc[w] = "notificar"
    /\ Rollback(w)

\* ------------------------------------------------------------ the observers
\* cola_recurso (GET /api/recursos/<r>/cola/): the committed EN_COLA and ACTIVA
\* rows of the resource
cola_recurso(r) ==
    ConEstado(db.reservas, r, "EN_COLA") \cup ConEstado(db.reservas, r, "ACTIVA")

Next ==
    \/ \E w \in Workers, r \in Recursos, c \in Clientes, ts \in TsClientes :
            solicitar_reserva_api(w, r, c, ts)
    \/ \E w \in Workers, r \in Recursos, c \in Clientes : liberar_reserva_api(w, r, c)
    \/ \E w \in Workers : select_for_update(w)
    \/ \E w \in Workers : solicitar_reserva_crear(w)
    \/ \E w \in Workers : solicitar_reserva_guardar(w)
    \/ \E w \in Workers : liberar_reserva_nada(w)
    \/ \E w \in Workers : liberar_reserva_finalizar(w)
    \/ \E w \in Workers : liberar_reserva_promover(w)
    \/ \E w \in Workers : notificar_sin_capa(w)
    \/ \E w \in Workers : notificar_enviar(w)
    \/ \E w \in Workers : notificar_falla(w)
    \/ \E w \in Workers : Commit(w)
    \/ \E w \in Workers : Fallar(w)
    \/ \E w \in Workers : Responder(w)

Spec == Init /\ [][Next]_vars

\* ------------------------------------------------- a resource out of service
\* resource 2 was put FUERA_SERVICIO by its administrator before any request
InitServicio ==
    /\ db = [recursos |-> [r \in Recursos |->
                 RecursoNuevo(IF r = 2 THEN "FUERA_SERVICIO" ELSE "DISPONIBLE")],
             reservas |-> <<>>,
             eventos |-> [r \in Recursos |-> <<>>]]
    /\ pc = [w \in Workers |-> "idle"]
    /\ tx = [w \in Workers |-> TxVacia]
    /\ ret = [w \in Workers |-> "-"]
    /\ bloqueo = [r \in Recursos |-> "libre"]

SpecServicio == InitServicio /\ [][Next]_vars

\* ------------------------------------------------------- a loaded queue
\* Reserva rows loaded as data (the table allows any reloj_lamport and
\* prioridad_id, equal ones included): resource 1 is held by row <<1, 1>> and
\* rows <<1, 2>> and <<1, 3>> wait EN_COLA
FilaCargada(c, l, e) ==
    [recurso |-> 1, cliente |-> c, reloj_lamport |-> l,
     prioridad_id |-> identificador_externo(c), estado |-> e,
     fecha_concesion |-> IF e = "ACTIVA" THEN timezone_now ELSE None,
     fecha_liberacion |-> None]

InitCola ==
    /\ \E c1 \in Clientes, c2 \in Clientes, c3 \in Clientes,
          l2 \in 2 .. (MaxTs + 1), l3 \in 2 .. (MaxTs + 1) :
          db = [recursos |-> [r \in Recursos |->
                    IF r = 1 THEN [estado_recurso |-> "OCUPADO", reserva_actual |-> <<1, 1>>]
                    ELSE RecursoNuevo("DISPONIBLE")],
                reservas |-> (<<1, 1>> :> FilaCargada(c1, 1, "ACTIVA"))
                          @@ (<<1, 2>> :> FilaCargada(c2, l2, "EN_COLA"))
                          @@ (<<1, 3>> :> FilaCargada(c3, l3, "EN_COLA")),
                eventos |-> [r \in Recursos |-> <<>>]]
    /\ pc = [w \in Workers |-> "idle"]
    /\ tx = [w \in Workers |-> TxVacia]
    /\ ret = [w \in Workers |-> "-"]
    /\ bloqueo = [r \in Recursos |-> "libre"]

\* only releases are issued on the loaded queue
NextLiberar ==
    \/ \E w \in Workers, r \in Recursos, c \in Clientes : liberar_reserva_api(w, r, c)
    \/ \E w \in Workers : select_for_update(w)
    \/ \E w \in Workers : liberar_reserva_nada(w)
    \/ \E w \in Workers : liberar_reserva_finalizar(w)
    \/ \E w \in Workers : liberar_reserva_promover(w)
    \/ \E w \in Workers : notificar_sin_capa(w)
    \/ \E w \in Workers : notificar_enviar(w)
    \/ \E w \in Workers : notificar_falla(w)
    \/ \E w \in Workers : Commit(w)
    \/ \E w \in Workers : Fallar(w)
    \/ \E w \in Workers : Responder(w)

SpecCola == InitCola /\ [][NextLiberar]_vars

\* ------------------------------------------------------- a held resource
\* resource 1 is held by row <<1, 1>> of client 1, loaded as data with
\* reloj_lamport 1
InitFila ==
    /\ db = [recursos |-> [r \in Recursos |->
                  IF r = 1 THEN [estado_recurso |-> "OCUPADO", reserva_actual |-> <<1, 1>>]
                  ELSE RecursoNuevo("DISPONIBLE")],
              reservas |-> (<<1, 1>> :> FilaCargada(1, 1, "ACTIVA")),
              eventos |-> [r \in Recursos |-> <<>>]]
    /\ pc = [w \in Workers |-> "idle"]
    /\ tx = [w \in Workers |-> TxVacia]
    /\ ret = [w \in Workers |-> "-"]
    /\ bloqueo = [r \in Recursos |-> "libre"]

\* every call is on the held resource
NextFila ==
    \/ \E w \in Workers, c \in Clientes, ts \in TsClientes :
            solicitar_reserva_api(w, 1, c, ts)
    \/ \E w \in Workers, c \in Clientes : liberar_reserva_api(w, 1, c)
    \/ \E w \in Workers : select_for_update(w)
    \/ \E w \in Workers : solicitar_reserva_crear(w)
    \/ \E w \in Workers : solicitar_reserva_guardar(w)
    \/ \E w \in Workers : liberar_reserva_nada(w)
    \/ \E w \in Workers : liberar_reserva_finalizar(w)
    \/ \E w \in Workers : liberar_reserva_promover(w)
    \/ \E w \in Workers : notificar_sin_capa(w)
    \/ \E w \in Workers : notificar_enviar(w)
    \/ \E w \in Workers : notificar_falla(w)
    \/ \E w \in Workers : Commit(w)
    \/ \E w \in Workers : Fallar(w)
    \/ \E w \in Workers : Responder(w)

SpecFila == InitFila /\ [][NextFila]_vars

\* ------------------------------------------------------ fair scheduling
\* the steps a running call takes by itself once it has its row lock
Paso(w) ==
    \/ solicitar_reserva_crear(w)
    \/ solicitar_reserva_guardar(w)
    \/ liberar_reserva_nada(w)
    \/ liberar_reserva_finalizar(w)
    \/ liberar_reserva_promover(w)
    \/ notificar_sin_capa(w)
    \/ notificar_enviar(w)
    \/ notificar_falla(w)
    \/ Commit(w)
    \/ Responder(w)

\* client c holds resource r (committed)
titular(r, c) ==
    \E id \in ConEstado(db.reservas, r, "ACTIVA") : db.reservas[id].cliente = c

\* the client that holds resource r calls liberar_reserva_api
LiberaTitular(r) ==
    \E w \in Workers, c \in Clientes : titular(r, c) /\ liberar_reserva_api(w, r, c)

\* calls on the held resource; the storage does not fail
NextJusta ==
    \/ \E w \in Workers, c \in Clientes, ts \in TsClientes :
            solicitar_reserva_api(w, 1, c, ts)
    \/ \E w \in Workers, c \in Clientes : liberar_reserva_api(w, 1, c)
    \/ \E w \in Workers : select_for_update(w)
    \/ \E w \in Workers : solicitar_reserva_crear(w)
    \/ \E w \in Workers : solicitar_reserva_guardar(w)
    \/ \E w \in Workers : liberar_reserva_nada(w)
    \/ \E w \in Workers : liberar_reserva_finalizar(w)
    \/ \E w \in Workers : liberar_reserva_promover(w)
    \/ \E w \in Workers : notificar_sin_capa(w)
    \/ \E w \in Workers : notificar_enviar(w)
    \/ \E w \in Workers : notificar_falla(w)
    \/ \E w \in Workers : Commit(w)
    \/ \E w \in Workers : Responder(w)

\* a running handler keeps running; a call waiting for a row lock that is
\* released again and again gets it (the database queues the waiters); and
\* the holder of the resource calls to release it
SpecJusta ==
    /\ InitFila /\ [][NextJusta]_vars
    /\ \A w \in Workers : WF_vars(Paso(w))
    /\ \A w \in Workers : SF_vars(select_for_update(w))
    /\ SF_vars(LiberaTitular(1))

\* requests of client 1 with ts_cliente 0 and releases of any client, on any
\* resource, the storage failing or not; a running handler keeps running and a call waiting for a
\* row lock that is released again and again gets it
NextEquitativo ==
    \/ \E w \in Workers, r \in Recursos : solicitar_reserva_api(w, r, 1, 0)
    \/ \E w \in Workers, r \in Recursos, c \in Clientes : liberar_reserva_api(w, r, c)
    \/ \E w \in Workers : select_for_update(w)
    \/ \E w \in Workers : solicitar_reserva_crear(w)
    \/ \E w \in Workers : solicitar_reserva_guardar(w)
    \/ \E w \in Workers : liberar_reserva_nada(w)
    \/ \E w \in Workers : liberar_reserva_finalizar(w)
    \/ \E w \in Workers : liberar_reserva_promover(w)
    \/ \E w \in Workers : notificar_sin_capa(w)
    \/ \E w \in Workers : notificar_enviar(w)
    \/ \E w \in Workers : notificar_falla(w)
    \/ \E w \in Workers : Commit(w)
    \/ \E w \in Workers : Fallar(w)
    \/ \E w \in Workers : Responder(w)

SpecEquitativa ==
    /\ Init /\ [][NextEquitativo]_vars
    /\ \A w \in Workers : WF_vars(Paso(w))
    /\ \A w \in Workers : SF_vars(select_for_update(w))

\* ------------------------------------------------- calls on two resources
\* requests of client 1 with any ts_cliente and releases of any client, on
\* both resources
NextParalelo ==
    \/ \E w \in Workers, r \in Recursos, ts \in TsClientes :
            solicitar_reserva_api(w, r, 1, ts)
    \/ \E w \in Workers, r \in Recursos, c \in Clientes : liberar_reserva_api(w, r, c)
    \/ \E w \in Workers : select_for_update(w)
    \/ \E w \in Workers : solicitar_reserva_crear(w)
    \/ \E w \in Workers : solicitar_reserva_guardar(w)
    \/ \E w \in Workers : liberar_reserva_nada(w)
    \/ \E w \in Workers : liberar_reserva_finalizar(w)
    \/ \E w \in Workers : liberar_reserva_promover(w)
    \/ \E w \in Workers : notificar_sin_capa(w)
    \/ \E w \in Workers : notificar_enviar(w)
    \/ \E w \in Workers : notificar_falla(w)
    \/ \E w \in Workers : Commit(w)
    \/ \E w \in Workers : Fallar(w)
    \/ \E w \in Workers : Responder(w)

SpecParalelo == Init /\ [][NextParalelo]_vars

\* ---------------------------------------------------- any POST to the API
\* a POST to solicitar with any body on any resource id: the request goes on
\* in solicitar_reserva or is answered with an error; releases as before
NextApi ==
    \/ \E w \in Workers, r \in RecursosPedidos, cuerpo \in Cuerpos :
            /\ respuesta_solicitar(r, cuerpo) = "ok"
            /\ solicitar_reserva_api(w, r, cuerpo.cliente_id,
                                     int_ts_cliente(cuerpo.ts_cliente).valor)
    \/ \E w \in Workers, r \in RecursosPedidos, cuerpo \in Cuerpos :
            solicitar_reserva_api_error(w, r, cuerpo)
    \/ \E w \in Workers, r \in Recursos, c \in Clientes : liberar_reserva_api(w, r, c)
    \/ \E w \in Workers : select_for_update(w)
    \/ \E w \in Workers : solicitar_reserva_crear(w)
    \/ \E w \in Workers : solicitar_reserva_guardar(w)
    \/ \E w \in Workers : liberar_reserva_nada(w)
    \/ \E w \in Workers : liberar_reserva_finalizar(w)
    \/ \E w \in Workers : liberar_reserva_promover(w)
    \/ \E w \in Workers : notificar_sin_capa(w)
    \/ \E w \in Workers : notificar_enviar(w)
    \/ \E w \in Workers : notificar_falla(w)
    \/ \E w \in Workers : Commit(w)
    \/ \E w \in Workers : Fallar(w)
    \/ \E w \in Workers : Responder(w)

SpecApi == Init /\ [][NextApi]_vars

\* ------------------------------------------------------ two held resources
\* a Reserva row of resource r loaded as data
FilaDe(r, c, l, e) == [FilaCargada(c, l, e) EXCEPT !.recurso = r]

\* resource 1 is held by row <<1, 1>> of client 1; resource 2 is held by row
\* <<2, 1>> of client 2, and row <<2, 2>> of client 1 waits for it
InitMarco ==
    /\ db = [recursos |-> [r \in Recursos |->
                  [estado_recurso |-> "OCUPADO", reserva_actual |-> <<r, 1>>]],
              reservas |-> (<<1, 1>> :> FilaDe(1, 1, 1, "ACTIVA"))
                        @@ (<<2, 1>> :> FilaDe(2, 2, 1, "ACTIVA"))
                        @@ (<<2, 2>> :> FilaDe(2, 1, 2, "EN_COLA")),
              eventos |-> [r \in Recursos |-> <<>>]]
    /\ pc = [w \in Workers |-> "idle"]
    /\ tx = [w \in Workers |-> TxVacia]
    /\ ret = [w \in Workers |-> "-"]
    /\ bloqueo = [r \in Recursos |-> "libre"]

\* requests with ts_cliente 0 on resource 1, releases on both resources
NextMarco ==
    \/ \E w \in Workers, c \in Clientes : solicitar_reserva_api(w, 1, c, 0)
    \/ \E w \in Workers, r \in Recursos, c \in Clientes : liberar_reserva_api(w, r, c)
    \/ \E w \in Workers : select_for_update(w)
    \/ \E w \in Workers : solicitar_reserva_crear(w)
    \/ \E w \in Workers : solicitar_reserva_guardar(w)
    \/ \E w \in Workers : liberar_reserva_nada(w)
    \/ \E w \in Workers : liberar_reserva_finalizar(w)
    \/ \E w \in Workers : liberar_reserva_promover(w)
    \/ \E w \in Workers : notificar_sin_capa(w)
    \/ \E w \in Workers : notificar_enviar(w)
    \/ \E w \in Workers : notificar_falla(w)
    \/ \E w \in Workers : Commit(w)
    \/ \E w \in Workers : Fallar(w)
    \/ \E w \in Workers : Responder(w)

SpecMarco == InitMarco /\ [][NextMarco]_vars

\* ===================================================================== claims
\* the committed rows that belong to resource r
FilasDe(d, r) ==
    [recurso |-> d.recursos[r],
     reservas |-> [id \in DeRecurso(d.reservas, r) |-> d.reservas[id]],
     eventos |-> d.eventos[r]]

\* worker w is inside the atomic block of a call on resource r
Dentro(w, r) == pc[w] \in EnTransaccion /\ tx[w].recurso_id = r

\* this step is the commit of worker w's call of operation op
Confirma(w, op) ==
    pc[w] = "commit" /\ tx[w].op = op /\ pc'[w] = "retorno" /\ ret'[w] = "reserva"

\* C1 -- mutual exclusion: no resource ever has two ACTIVA reservations, in
\* the committed rows or in the rows any running transaction sees
C1_ExclusionMutua ==
    \A r \in Recursos :
        /\ Cardinality(ConEstado(db.reservas, r, "ACTIVA")) <= 1
        /\ \A w \in Workers :
              Cardinality(ConEstado(Reservas(w), r, "ACTIVA")) <= 1

\* a second request arrived on a held resource and waits behind the holder
C1_Testigo ==
    \E r \in Recursos :
        /\ Cardinality(ConEstado(db.reservas, r, "ACTIVA")) = 1
        /\ ConEstado(db.reservas, r, "EN_COLA") /= {}

\* C2 -- committed rows: a resource is OCUPADO iff it has exactly one ACTIVA
\* reservation; that reservation is its reserva_actual and is a reservation
\* of that resource; a DISPONIBLE resource has no reserva_actual
C2_RecursoYTitular ==
    \A r \in Recursos :
        LET rec == db.recursos[r]
            activas == ConEstado(db.reservas, r, "ACTIVA")
        IN  /\ (rec.estado_recurso = "OCUPADO") <=> (Cardinality(activas) = 1)
            /\ rec.estado_recurso = "OCUPADO" =>
                  /\ rec.reserva_actual \in DOMAIN db.reservas
                  /\ activas = {rec.reserva_actual}
                  /\ db.reservas[rec.reserva_actual].recurso = r
            /\ rec.estado_recurso = "DISPONIBLE" => rec.reserva_actual = None

\* a release has handed the resource over: its holder is a promoted request
C2_Testigo ==
    \E r \in Recursos :
        /\ db.recursos[r].estado_recurso = "OCUPADO"
        /\ db.recursos[r].reserva_actual \in DOMAIN db.reservas
        /\ ConEstado(db.reservas, r, "FINALIZADA") /= {}
        /\ \E i \in 1 .. Len(db.eventos[r]) :
              /\ db.eventos[r][i].tipo_evento = "CONCESION"
              /\ db.eventos[r][i].reserva = db.recursos[r].reserva_actual

\* key a is not after key b in the order (logical_ts, tie_break_key)
NoDespues(a, b) ==
    \/ a.reloj_lamport < b.reloj_lamport
    \/ /\ a.reloj_lamport = b.reloj_lamport
       /\ \/ a.prioridad_id = b.prioridad_id
          \/ StrMenor(a.prioridad_id, b.prioridad_id)

\* the request a committing release promotes: EN_COLA before, ACTIVA after
Promovidas(r) ==
    {id \in ConEstado(db.reservas, r, "EN_COLA") : db'.reservas[id].estado = "ACTIVA"}

\* C3 -- a release that finishes the holder while requests wait promotes
\* exactly one of them, one whose (reloj_lamport, prioridad_id) no waiting
\* request's pair precedes; whatever the order the rows were created in
C3_Promocion ==
    [][\A w \in Workers :
         (Confirma(w, "liberar") /\ ConEstado(db.reservas, tx[w].recurso_id, "EN_COLA") /= {})
         => LET r == tx[w].recurso_id
            IN  /\ Cardinality(Promovidas(r)) = 1
                /\ \A p \in Promovidas(r) :
                      /\ db'.recursos[r].reserva_actual = p
                      /\ \A o \in ConEstado(db.reservas, r, "EN_COLA") :
                            NoDespues(db.reservas[p], db.reservas[o])]_vars

\* the promoted request was created after the one still waiting, and won on
\* the tie-break: equal reloj_lamport, "10" before "9" as strings
C3_Testigo ==
    /\ <<1, 3>> \in ConEstado(db.reservas, 1, "ACTIVA")
    /\ <<1, 2>> \in ConEstado(db.reservas, 1, "EN_COLA")
    /\ db.reservas[<<1, 3>>].reloj_lamport = db.reservas[<<1, 2>>].reloj_lamport
    /\ db.reservas[<<1, 3>>].prioridad_id = <<49, 48>>
    /\ db.reservas[<<1, 2>>].prioridad_id = <<57>>

\* every reloj_lamport given so far to a request on resource r: in a committed
\* row or in a row some running transaction has inserted
Asignados(r) ==
    {db.reservas[id].reloj_lamport : id \in DeRecurso(db.reservas, r)}
    \cup UNION {{tx[w].filas[id].reloj_lamport : id \in DeRecurso(tx[w].filas, r)} :
                    w \in Workers}

\* C4 -- every new request is stamped max(ts_cliente, highest reloj_lamport
\* of the resource or 0) + 1, above every reloj_lamport given before on that
\* resource, whatever ts_cliente is and however the calls interleave
C4_RelojLamport ==
    [][\A w \in Workers :
         (pc[w] = "s_crear" /\ pc'[w] = "s_guardar")
         => LET r == tx[w].recurso_id
                nuevo == tx'[w].filas[tx'[w].reserva].reloj_lamport
            IN  /\ nuevo = Maximo({tx[w].ts_cliente, 0} \cup Asignados(r)) + 1
                /\ \A p \in Asignados(r) : p < nuevo
                /\ tx[w].ts_cliente < nuevo]_vars

\* two requests on one resource overlap: the first has committed and not yet
\* answered, the second got the row lock after it and, with a stale
\* ts_cliente, is stamped above the first
C4_Testigo ==
    \E w \in Workers, v \in Workers, r \in Recursos :
        /\ pc[w] = "retorno" /\ tx[w].op = "solicitar" /\ tx[w].reserva = <<r, 1>>
        /\ pc[v] = "s_guardar" /\ tx[v].reserva = <<r, 2>>
        /\ tx[v].ts_cliente < db.reservas[<<r, 1>>].reloj_lamport
        /\ db.reservas[<<r, 1>>].reloj_lamport < tx[v].filas[<<r, 2>>].reloj_lamport

\* C5 -- a request on a DISPONIBLE resource is created ACTIVA with
\* fecha_concesion and makes the resource OCUPADO with it as reserva_actual;
\* on any other resource it is created EN_COLA without fecha_concesion and
\* the resource row stays as it was
C5_Admision ==
    [][\A w \in Workers :
         Confirma(w, "solicitar")
         => LET r == tx[w].recurso_id
                id == tx[w].reserva
                antes == db.recursos[r]
            IN  /\ id \notin DOMAIN db.reservas
                /\ DOMAIN db'.reservas = DOMAIN db.reservas \cup {id}
                /\ db'.reservas[id].recurso = r
                /\ IF antes.estado_recurso = "DISPONIBLE"
                   THEN /\ db'.reservas[id].estado = "ACTIVA"
                        /\ db'.reservas[id].fecha_concesion /= None
                        /\ db'.recursos[r] =
                              [estado_recurso |-> "OCUPADO", reserva_actual |-> id]
                   ELSE /\ db'.reservas[id].estado = "EN_COLA"
                        /\ db'.reservas[id].fecha_concesion = None
                        /\ db'.recursos[r] = antes]_vars

\* a request waits on the resource that is out of service, another one holds
\* the resource that was free
C5_Testigo ==
    /\ db.recursos[2].estado_recurso = "FUERA_SERVICIO"
    /\ ConEstado(db.reservas, 2, "EN_COLA") /= {}
    /\ db.recursos[1].estado_recurso = "OCUPADO"
    /\ ConEstado(db.reservas, 1, "ACTIVA") = {db.recursos[1].reserva_actual}

\* C6 -- a release by a client with no ACTIVA reservation on the resource
\* returns None (liberada = false) and changes no committed row; and only
\* such a release returns None
C6_LiberarSinReserva ==
    [][\A w \in Workers :
         (pc[w] = "l_buscar" /\ pc'[w] /= "l_buscar" /\ ret'[w] /= "excepcion")
         => LET r == tx[w].recurso_id
                tiene == \E id \in ConEstado(db.reservas, r, "ACTIVA") :
                            db.reservas[id].cliente = tx[w].cliente
            IN  /\ ~tiene <=> (ret'[w] = "None" /\ pc'[w] = "retorno")
                /\ ~tiene => /\ db' = db
                             /\ ~liberada(w)'
                             /\ tx'[w].reserva = None
                             /\ bloqueo'[r] = "libre"]_vars

\* a client that does not hold the resource tried to release it while another
\* client holds it, and got None
C6_Testigo ==
    \E w \in Workers :
        /\ pc[w] = "retorno" /\ ret[w] = "None" /\ tx[w].op = "liberar"
        /\ db.recursos[tx[w].recurso_id].estado_recurso = "OCUPADO"

\* the committed Reserva rows of resource r
FilasRecurso(r) == DeRecurso(db.reservas, r)

\* C7 -- on a free resource without requests: a request with ts_cliente 0 is
\* ACTIVA with reloj_lamport 1 and the resource OCUPADO; the next request
\* with ts_cliente 0 is EN_COLA with reloj_lamport 2; the holder's release
\* returns the holder's reservation, now FINALIZADA with fecha_liberacion, and
\* the waiting one is ACTIVA with fecha_concesion and is reserva_actual of the
\* OCUPADO resource; a release with nothing waiting leaves the resource
\* DISPONIBLE without reserva_actual
C7_Relevo ==
    [][\A w \in Workers :
         LET r == tx[w].recurso_id
             a1 == <<r, 1>>
             b1 == <<r, 2>>
         IN  /\ (Confirma(w, "solicitar") /\ FilasRecurso(r) = {}
                    /\ tx[w].eventos[1].ts_cliente = 0)
                => /\ tx'[w].reserva = a1
                   /\ db'.reservas[a1].estado = "ACTIVA"
                   /\ db'.reservas[a1].reloj_lamport = 1
                   /\ db'.recursos[r].estado_recurso = "OCUPADO"
             /\ (Confirma(w, "solicitar") /\ FilasRecurso(r) = {a1}
                    /\ db.reservas[a1].estado = "ACTIVA"
                    /\ db.reservas[a1].reloj_lamport = 1
                    /\ tx[w].eventos[1].ts_cliente = 0)
                => /\ tx'[w].reserva = b1
                   /\ db'.reservas[b1].estado = "EN_COLA"
                   /\ db'.reservas[b1].reloj_lamport = 2
             /\ (Confirma(w, "liberar") /\ FilasRecurso(r) = {a1, b1}
                    /\ db.reservas[a1].estado = "ACTIVA"
                    /\ db.reservas[b1].estado = "EN_COLA")
                => /\ tx'[w].reserva = a1
                   /\ db'.reservas[a1].estado = "FINALIZADA"
                   /\ db'.reservas[a1].fecha_liberacion /= None
                   /\ db'.reservas[b1].estado = "ACTIVA"
                   /\ db'.reservas[b1].fecha_concesion /= None
                   /\ db'.recursos[r] =
                         [estado_recurso |-> "OCUPADO", reserva_actual |-> b1]
             /\ (Confirma(w, "liberar") /\ ConEstado(db.reservas, r, "EN_COLA") = {})
                => db'.recursos[r] = RecursoNuevo("DISPONIBLE")]_vars

\* A asked, B asked, both with ts_cliente 0, and A's release has just returned
\* A's reservation: B holds the resource
C7_Testigo ==
    \E w \in Workers, r \in Recursos :
        /\ pc[w] = "retorno" /\ tx[w].op = "liberar" /\ ret[w] = "reserva"
        /\ tx[w].reserva = <<r, 1>>
        /\ FilasRecurso(r) = {<<r, 1>>, <<r, 2>>}
        /\ db.reservas[<<r, 1>>].cliente /= db.reservas[<<r, 2>>].cliente
        /\ db.reservas[<<r, 1>>].estado = "FINALIZADA"
        /\ db.reservas[<<r, 2>>].estado = "ACTIVA"
        /\ db.reservas[<<r, 2>>].reloj_lamport = 2
        /\ db.recursos[r].reserva_actual = <<r, 2>>
        /\ db.eventos[r][1].ts_cliente = 0 /\ db.eventos[r][2].ts_cliente = 0

\* committed rows an observer must never find: a holder already FINALIZADA on
\* a resource still OCUPADO, a DISPONIBLE resource with a request waiting or
\* with a holder
SinIntermedios(d) ==
    \A r \in Recursos :
        /\ d.recursos[r].estado_recurso = "OCUPADO"
              => /\ d.recursos[r].reserva_actual \in DOMAIN d.reservas
                 /\ d.reservas[d.recursos[r].reserva_actual].estado = "ACTIVA"
        /\ d.recursos[r].estado_recurso = "DISPONIBLE"
              => /\ ConEstado(d.reservas, r, "EN_COLA") = {}
                 /\ ConEstado(d.reservas, r, "ACTIVA") = {}

\* C8 -- a call that fails inside its atomic block leaves the committed rows
\* as they were; while a call is inside its atomic block on a resource, that
\* resource's committed rows change only by that call's commit; and the
\* committed rows never show a half-done request or release
C8_TodoONada ==
    [][/\ \A w \in Workers :
            (ret'[w] = "excepcion" /\ ret[w] /= "excepcion") => db' = db
       /\ \A w \in Workers, r \in Recursos :
            (Dentro(w, r) /\ ~(pc[w] = "commit" /\ ret'[w] = "reserva"))
            => FilasDe(db', r) = FilasDe(db, r)
       /\ SinIntermedios(db')]_vars

\* a release has failed and its writes were dropped (the holder still holds,
\* the queue still waits) while the other worker's release of another
\* resource is half done: its holder FINALIZADA only inside its transaction
C8_Testigo ==
    \E w \in Workers, v \in Workers :
        /\ pc[w] = "retorno" /\ ret[w] = "excepcion" /\ tx[w].op = "liberar"
        /\ db.recursos[tx[w].recurso_id].estado_recurso = "OCUPADO"
        /\ pc[v] = "l_promover" /\ tx[v].recurso_id /= tx[w].recurso_id
        /\ tx[v].filas[tx[v].reserva].estado = "FINALIZADA"
        /\ db.reservas[tx[v].reserva].estado = "ACTIVA"

\* C9 -- (as claimed) whatever _notificar_cambio_cola meets, no channel layer
\* or a delivery that fails, the call goes on to return its result: no
\* exception reaches the caller
C9_NotificacionSinFallo ==
    [][\A w \in Workers :
         (pc[w] = "notificar" /\ pc'[w] /= "notificar")
         => (pc'[w] = "commit" /\ ret'[w] /= "excepcion")]_vars

\* C10 -- (as claimed) when _notificar_cambio_cola is invoked the call has
\* committed its writes and no longer holds the resource's row lock
C10_ConfirmarAntesDeNotificar ==
    \A w \in Workers :
        pc[w] = "notificar"
        => /\ bloqueo[tx[w].recurso_id] /= w
           /\ tx[w].filas = <<>> /\ tx[w].fila_recurso = <<>> /\ tx[w].eventos = <<>>

\* C11 -- (as claimed) a request processed later that reports a logical time
\* earlier than the reloj_lamport of a request still EN_COLA on the resource
\* carries the smaller reloj_lamport, and so is promoted ahead of it
C11_SaltoDeCola ==
    [][\A w \in Workers :
         (pc[w] = "s_crear" /\ pc'[w] = "s_guardar")
         => \A b \in ConEstado(db.reservas, tx[w].recurso_id, "EN_COLA") :
               tx[w].ts_cliente < db.reservas[b].reloj_lamport
               => tx'[w].filas[tx'[w].reserva].reloj_lamport
                     < db.reservas[b].reloj_lamport]_vars

\* C11 -- (amended) the requests of a resource carry reloj_lamport in the
\* order they were processed under its row lock, so a release promotes the
\* waiting request that was processed first: every other waiting request was
\* processed later and carries a larger reloj_lamport; no request jumps
C11_SinSalto ==
    [][/\ \A r \in Recursos : \A a \in FilasRecurso(r)' : \A b \in FilasRecurso(r)' :
            a[2] < b[2] => db'.reservas[a].reloj_lamport < db'.reservas[b].reloj_lamport
       /\ \A w \in Workers :
            Confirma(w, "liberar")
            => LET r == tx[w].recurso_id
               IN  \A p \in Promovidas(r) :
                     \A o \in ConEstado(db.reservas, r, "EN_COLA") \ {p} :
                        /\ p[2] < o[2]
                        /\ db.reservas[p].reloj_lamport < db.reservas[o].reloj_lamport
                        /\ db'.reservas[o].estado = "EN_COLA"]_vars

\* the second request reported ts_cliente MaxTs, the third, processed after
\* it, reported 0; the release promoted the second and the third still waits
C11_Testigo ==
    /\ {<<1, 2>>, <<1, 3>>} \subseteq DOMAIN db.reservas
    /\ db.reservas[<<1, 1>>].estado = "FINALIZADA"
    /\ db.reservas[<<1, 2>>].estado = "ACTIVA"
    /\ db.reservas[<<1, 3>>].estado = "EN_COLA"
    /\ db.recursos[1].reserva_actual = <<1, 2>>
    /\ \E i \in 1 .. Len(db.eventos[1]), j \in 1 .. Len(db.eventos[1]) :
          /\ db.eventos[1][i].tipo_evento = "SOLICITUD"
          /\ db.eventos[1][i].reserva = <<1, 2>>
          /\ db.eventos[1][i].ts_cliente = MaxTs
          /\ db.eventos[1][j].tipo_evento = "SOLICITUD"
          /\ db.eventos[1][j].reserva = <<1, 3>>
          /\ db.eventos[1][j].ts_cliente = 0

\* the ids the Reserva rows of resource r can have
Ids(r) == {<<r, k>> : k \in 1 .. (MaxReservas + 1)}

\* request id waits in the committed rows
EnCola(id) == id \in DOMAIN db.reservas /\ db.reservas[id].estado = "EN_COLA"

\* request id holds its resource in the committed rows
Activa(id) == id \in DOMAIN db.reservas /\ db.reservas[id].estado = "ACTIVA"

\* C12 -- (as claimed) on a resource that is never FUERA_SERVICIO and whose
\* holders call to release it, every request EN_COLA is eventually ACTIVA,
\* whatever requests keep arriving
C12_SinInanicion ==
    \A id \in Ids(1) :
        EnCola(id) ~> Activa(id)

\* what the next statement of call v reads from the database: the locked row,
\* the stamp, status and id of the row to insert, the reservation to finish,
\* the request to promote, the rows its commit leaves
Efecto(v) ==
    LET r == tx[v].recurso_id
    IN  CASE pc[v] = "lock" -> <<bloqueo[r], db.recursos[r]>>
          [] pc[v] = "s_crear" -> <<reloj_lamport(v), estado_solicitud(v), nuevo_id(v)>>
          [] pc[v] = "l_buscar" -> <<mas_reciente(v)>>
          [] pc[v] = "l_promover" -> <<siguiente(v)>>
          [] pc[v] = "commit" -> <<FilasDe(Confirmado(v), r)>>
          [] OTHER -> <<>>

\* the resource of the call worker w starts or continues in this step
RecursoDe(w) == IF pc[w] = "idle" THEN tx'[w].recurso_id ELSE tx[w].recurso_id

\* C13 -- a call that waits for the row lock of a resource no other call is
\* working on can take it, and a call that has its lock can always go on,
\* whatever calls are in flight on other resources; and a step of a call on
\* one resource changes nothing of a call on another resource: not its
\* position, local state or lock, not its resource's committed rows, and not
\* what its next statement reads (the reloj_lamport it will assign included),
\* so calls on different resources commute and end in the same rows however
\* they are interleaved or ordered
C13_BloqueoPorRecurso ==
    [][/\ \A v \in Workers :
            /\ (pc[v] = "lock" /\ \A w \in Workers \ {v} : ~Dentro(w, tx[v].recurso_id))
                  => ENABLED select_for_update(v)
            /\ pc[v] \in EnTransaccion => ENABLED Paso(v)
       /\ \A w \in Workers, v \in Workers :
            (w /= v /\ pc'[w] /= pc[w] /\ pc[v] /= "idle"
                /\ RecursoDe(w) /= tx[v].recurso_id)
            => LET r == tx[v].recurso_id
               IN  /\ pc'[v] = pc[v] /\ tx'[v] = tx[v] /\ ret'[v] = ret[v]
                   /\ bloqueo'[r] = bloqueo[r]
                   /\ FilasDe(db', r) = FilasDe(db, r)
                   /\ Efecto(v)' = Efecto(v)]_vars

\* two calls, one per resource, hold their row locks at the same time and are
\* both about to commit: a request stamped on resource 1 and a release that
\* promotes on resource 2
C13_Testigo ==
    \E w \in Workers, v \in Workers :
        /\ pc[w] = "commit" /\ tx[w].recurso_id = 1 /\ tx[w].op = "solicitar"
        /\ pc[v] = "commit" /\ tx[v].recurso_id = 2 /\ tx[v].op = "liberar"
        /\ bloqueo[1] = w /\ bloqueo[2] = v

\* the row locks worker w holds
Bloqueos(w) == {r \in Recursos : bloqueo[r] = w}

\* some call in flight can take a step
AlgunoAvanza == \E w \in Workers : ENABLED select_for_update(w) \/ ENABLED Paso(w)

\* C14 -- a call holds no row lock while it waits for one and never holds a
\* lock other than its resource's; whenever calls are in flight one of them
\* can take a step (they never all wait for each other); and with fair
\* scheduling every call that has begun gets its lock and returns
C14_SinBloqueoMutuo ==
    /\ [](\A w \in Workers :
            /\ pc[w] \in EnTransaccion => Bloqueos(w) = {tx[w].recurso_id}
            /\ pc[w] \notin EnTransaccion => Bloqueos(w) = {})
    /\ []((\E w \in Workers : pc[w] /= "idle") => AlgunoAvanza)
    /\ \A w \in Workers : (pc[w] = "lock") ~> (pc[w] = "retorno")

\* a call waits for the row lock that the other call, working on the same
\* resource, holds
C14_Testigo ==
    \E w \in Workers, v \in Workers :
        /\ pc[w] = "lock" /\ w /= v
        /\ bloqueo[tx[w].recurso_id] = v
        /\ Dentro(v, tx[w].recurso_id)

\* the statuses the service gives a Reserva
EstadosUsados == {"EN_COLA", "ACTIVA", "FINALIZADA"}

\* C15 -- committed rows: a Reserva appears only by the commit of the request
\* that returns it, as ACTIVA or EN_COLA; its estado changes only EN_COLA ->
\* ACTIVA, as the promotion of a committing release on its resource, and
\* ACTIVA -> FINALIZADA, as the reservation a committing release returns; a
\* FINALIZADA row keeps its estado, fecha_concesion and fecha_liberacion; no
\* row is removed; CANCELADA, RECHAZADA and EXPIRADA never appear, committed
\* or inside a transaction
C15_CicloDeVida ==
    [][/\ DOMAIN db.reservas \subseteq DOMAIN db'.reservas
       /\ \A w \in Workers : \A id \in DOMAIN tx'[w].filas :
            tx'[w].filas[id].estado \in EstadosUsados
       /\ \A id \in DOMAIN db'.reservas :
            LET despues == db'.reservas[id]
            IN  /\ despues.estado \in EstadosUsados
                /\ id \notin DOMAIN db.reservas
                      => /\ despues.estado \in {"ACTIVA", "EN_COLA"}
                         /\ \E w \in Workers :
                               Confirma(w, "solicitar") /\ tx[w].reserva = id
                /\ id \in DOMAIN db.reservas
                      => LET antes == db.reservas[id]
                         IN  /\ antes.estado = "FINALIZADA"
                                   => /\ despues.estado = "FINALIZADA"
                                      /\ despues.fecha_concesion = antes.fecha_concesion
                                      /\ despues.fecha_liberacion = antes.fecha_liberacion
                             /\ antes.estado /= despues.estado
                                   => \E w \in Workers :
                                        /\ Confirma(w, "liberar")
                                        /\ tx[w].recurso_id = despues.recurso
                                        /\ \/ /\ antes.estado = "EN_COLA"
                                              /\ despues.estado = "ACTIVA"
                                              /\ tx[w].reserva /= id
                                           \/ /\ antes.estado = "ACTIVA"
                                              /\ despues.estado = "FINALIZADA"
                                              /\ tx[w].reserva = id]_vars

\* a request that was created EN_COLA, was promoted and then released is
\* FINALIZADA with both dates, and a release on its resource was served after
C15_Testigo ==
    \E r \in Recursos, w \in Workers :
        /\ <<r, 2>> \in DOMAIN db.reservas
        /\ db.reservas[<<r, 2>>].estado = "FINALIZADA"
        /\ db.reservas[<<r, 2>>].fecha_concesion /= None
        /\ db.reservas[<<r, 2>>].fecha_liberacion /= None
        /\ \E i \in 1 .. Len(db.eventos[r]) :
              /\ db.eventos[r][i].tipo_evento = "SOLICITUD"
              /\ db.eventos[r][i].reserva = <<r, 2>>
              /\ db.eventos[r][i].estado_resultante = "EN_COLA"
        /\ pc[w] = "retorno" /\ tx[w].op = "liberar" /\ tx[w].recurso_id = r
        /\ ret[w] = "None"

\* the request of worker w is answered in this step without reaching
\* solicitar_reserva's row lock
RespondeError(w) == pc[w] = "idle" /\ pc'[w] = "retorno"

\* C16 -- (as claimed) a POST to solicitar that is answered with an error gets
\* a client error, 400 or 404, never a server error, and leaves every
\* Reserva, Evento and Recurso as it was
C16_ErroresSinRastro ==
    [][\A w \in Workers :
         RespondeError(w) => (ret'[w] \in {"400", "404"} /\ db' = db)]_vars

\* the Evento rows this step appends for resource r (the log only grows)
Anexados(r) == SubSeq(db'.eventos[r], Len(db.eventos[r]) + 1, Len(db'.eventos[r]))

\* the log of resource r only grows in this step
SoloAnexa(r) ==
    /\ Len(db.eventos[r]) <= Len(db'.eventos[r])
    /\ SubSeq(db'.eventos[r], 1, Len(db.eventos[r])) = db.eventos[r]

\* tipo_evento and reserva of the appended events
Tipos(r) == [i \in 1 .. Len(Anexados(r)) |->
                <<Anexados(r)[i].tipo_evento, Anexados(r)[i].reserva>>]

\* no call commits in this step
NadieConfirma == \A w \in Workers : ~(pc[w] = "commit" /\ ret'[w] = "reserva")

\* C17 -- (as claimed) the log only grows; a request appends one SOLICITUD for
\* the Reserva it creates; a release appends one LIBERACION for the Reserva it
\* finishes and, iff it promotes, one CONCESION for the promoted Reserva,
\* the CONCESION before the LIBERACION; no other step appends
C17_ConcesionAntes ==
    [][/\ \A r \in Recursos : SoloAnexa(r)
       /\ NadieConfirma => db'.eventos = db.eventos
       /\ \A w \in Workers :
            LET r == tx[w].recurso_id
            IN  /\ Confirma(w, "solicitar")
                      => Tipos(r) = <<(<<"SOLICITUD", tx[w].reserva>>)>>
                /\ (Confirma(w, "liberar") /\ Promovidas(r) = {})
                      => Tipos(r) = <<(<<"LIBERACION", tx[w].reserva>>)>>
                /\ Confirma(w, "liberar")
                      => \A p \in Promovidas(r) :
                            Tipos(r) = << <<"CONCESION", p>>,
                                          <<"LIBERACION", tx[w].reserva>> >>]_vars

\* C17 -- (amended) the same, with the LIBERACION before the CONCESION; and
\* the events of the other resources are left alone
C17_LiberacionAntes ==
    [][/\ \A r \in Recursos : SoloAnexa(r)
       /\ NadieConfirma => db'.eventos = db.eventos
       /\ \A w \in Workers :
            LET r == tx[w].recurso_id
            IN  /\ (pc[w] = "commit" /\ ret'[w] = "reserva")
                      => \A o \in Recursos \ {r} : db'.eventos[o] = db.eventos[o]
                /\ Confirma(w, "solicitar")
                      => Tipos(r) = <<(<<"SOLICITUD", tx[w].reserva>>)>>
                /\ (Confirma(w, "liberar") /\ Promovidas(r) = {})
                      => Tipos(r) = <<(<<"LIBERACION", tx[w].reserva>>)>>
                /\ Confirma(w, "liberar")
                      => \A p \in Promovidas(r) :
                            Tipos(r) = << <<"LIBERACION", tx[w].reserva>>,
                                          <<"CONCESION", p>> >>]_vars

\* the log of a resource after a request, a second request and the holder's
\* release: SOLICITUD, SOLICITUD, LIBERACION of the first, CONCESION of the
\* second
C17_Testigo ==
    \E r \in Recursos :
        /\ Len(db.eventos[r]) = 4
        /\ db.eventos[r][1].tipo_evento = "SOLICITUD" /\ db.eventos[r][1].reserva = <<r, 1>>
        /\ db.eventos[r][2].tipo_evento = "SOLICITUD" /\ db.eventos[r][2].reserva = <<r, 2>>
        /\ db.eventos[r][3].tipo_evento = "LIBERACION" /\ db.eventos[r][3].reserva = <<r, 1>>
        /\ db.eventos[r][4].tipo_evento = "CONCESION" /\ db.eventos[r][4].reserva = <<r, 2>>

\* C18 -- committed rows, from resources that start DISPONIBLE without
\* requests: a DISPONIBLE resource has no request EN_COLA
C18_SinEsperaOciosa ==
    \A r \in Recursos :
        db.recursos[r].estado_recurso = "DISPONIBLE"
        => ConEstado(db.reservas, r, "EN_COLA") = {}

\* a resource is DISPONIBLE again after its queue was served: a request waited
\* on it, was promoted by a release and has been released too
C18_Testigo ==
    \E r \in Recursos :
        /\ db.recursos[r].estado_recurso = "DISPONIBLE"
        /\ Cardinality(ConEstado(db.reservas, r, "FINALIZADA")) = 2
        /\ \E i \in 1 .. Len(db.eventos[r]) : db.eventos[r][i].tipo_evento = "CONCESION"

\* C19 -- committed rows: the ACTIVA request of a resource carries a
\* reloj_lamport below that of every request EN_COLA on it, so it sorts first
\* in cola_recurso's listing by (reloj_lamport, prioridad_id)
C19_TitularPrimero ==
    \A r \in Recursos :
        \A a \in ConEstado(db.reservas, r, "ACTIVA") :
            /\ \A q \in ConEstado(db.reservas, r, "EN_COLA") :
                  db.reservas[a].reloj_lamport < db.reservas[q].reloj_lamport
            /\ \A o \in cola_recurso(r) \ {a} :
                  OrdenCola(db.reservas[a], db.reservas[o])

\* the holder is a request that was promoted, a later request waits behind
\* it, and the waiting client's key "10" sorts before the holder's "9"
C19_Testigo ==
    /\ cola_recurso(1) = {<<1, 2>>, <<1, 3>>}
    /\ db.reservas[<<1, 2>>].estado = "ACTIVA"
    /\ db.reservas[<<1, 3>>].estado = "EN_COLA"
    /\ db.reservas[<<1, 2>>].prioridad_id = <<57>>
    /\ db.reservas[<<1, 3>>].prioridad_id = <<49, 48>>

\* the rows of resource r that exist, committed or inserted by a running call
Existentes(r) ==
    [id \in DeRecurso(db.reservas, r) \cup
             UNION {DeRecurso(tx[w].filas, r) : w \in Workers} |->
        IF id \in DOMAIN db.reservas THEN db.reservas[id].reloj_lamport
        ELSE tx[CHOOSE w \in Workers : id \in DOMAIN tx[w].filas].filas[id].reloj_lamport]

\* C20 -- no two requests of a resource, in any status, committed or not,
\* carry the same reloj_lamport; so when a release looks for the request to
\* promote, reloj_lamport alone singles it out and prioridad_id decides nothing
C20_RelojUnico ==
    /\ \A r \in Recursos :
          LET relojes == Existentes(r)
          IN  \A a \in DOMAIN relojes : \A b \in DOMAIN relojes :
                 a /= b => relojes[a] /= relojes[b]
    /\ \A w \in Workers :
          pc[w] = "l_promover"
          => LET filas == Reservas(w)
                 cola == ConEstado(filas, tx[w].recurso_id, "EN_COLA")
             IN  /\ Cardinality(siguiente(w)) <= 1
                 /\ siguiente(w) =
                       {id \in cola : \A o \in cola :
                           filas[id].reloj_lamport <= filas[o].reloj_lamport}

\* a release is about to promote with two requests waiting; the later one has
\* the key that sorts first, "10" before "9", and the larger reloj_lamport
C20_Testigo ==
    \E w \in Workers :
        /\ pc[w] = "l_promover" /\ tx[w].recurso_id = 1
        /\ ConEstado(Reservas(w), 1, "EN_COLA") = {<<1, 2>>, <<1, 3>>}
        /\ db.reservas[<<1, 2>>].prioridad_id = <<57>>
        /\ db.reservas[<<1, 3>>].prioridad_id = <<49, 48>>
        /\ db.reservas[<<1, 2>>].reloj_lamport < db.reservas[<<1, 3>>].reloj_lamport

\* the committed Reserva rows this step changes or removes
Cambiadas ==
    {id \in DOMAIN db.reservas :
        id \notin DOMAIN db'.reservas \/ db'.reservas[id] /= db.reservas[id]}

\* C21 -- every step of a release by client c on resource r leaves the
\* committed Reserva rows as they are, except its commit, which changes at
\* most two rows: one row that was ACTIVA for c on r, the one it returns, now
\* FINALIZADA with fecha_liberacion and otherwise as before; and, only along
\* with it, at most one row that was EN_COLA on r, now ACTIVA with
\* fecha_concesion and otherwise as before. No row is added or removed, so
\* every row ACTIVA for another client or on another resource, and every
\* EN_COLA row of c but the promoted one, stays as it was
C21_SoloElTitular ==
    [][\A w \in Workers :
         (tx[w].op = "liberar" /\ pc'[w] /= pc[w])
         => \/ db'.reservas = db.reservas
            \/ /\ Confirma(w, "liberar")
               /\ DOMAIN db'.reservas = DOMAIN db.reservas
               /\ LET r == tx[w].recurso_id
                      c == tx[w].cliente
                      cambiadas == Cambiadas
                      finalizadas == {id \in cambiadas : db.reservas[id].estado = "ACTIVA"}
                      promovidas == {id \in cambiadas : db.reservas[id].estado = "EN_COLA"}
                  IN  /\ cambiadas = finalizadas \cup promovidas
                      /\ Cardinality(finalizadas) = 1
                      /\ Cardinality(promovidas) <= 1
                      /\ \A id \in finalizadas :
                            /\ db.reservas[id].recurso = r
                            /\ db.reservas[id].cliente = c
                            /\ tx'[w].reserva = id
                            /\ db'.reservas[id] =
                                  [db.reservas[id] EXCEPT !.estado = "FINALIZADA",
                                                          !.fecha_liberacion = timezone_now]
                      /\ \A id \in promovidas :
                            /\ db.reservas[id].recurso = r
                            /\ db'.reservas[id] =
                                  [db.reservas[id] EXCEPT !.estado = "ACTIVA",
                                                          !.fecha_concesion = timezone_now]]_vars

\* client 1's release of resource 1 has just returned row <<1, 1>>: client 2's
\* waiting row was promoted, client 1's own waiting row on resource 1 still
\* waits, and on resource 2 client 2 still holds and client 1 still waits
C21_Testigo ==
    \E w \in Workers :
        /\ pc[w] = "retorno" /\ tx[w].op = "liberar" /\ ret[w] = "reserva"
        /\ tx[w].reserva = <<1, 1>>
        /\ DOMAIN db.reservas = {<<1, 1>>, <<1, 2>>, <<1, 3>>, <<2, 1>>, <<2, 2>>}
        /\ db.reservas[<<1, 1>>].estado = "FINALIZADA"
        /\ db.reservas[<<1, 1>>].cliente = 1
        /\ db.reservas[<<1, 2>>].estado = "ACTIVA"
        /\ db.reservas[<<1, 2>>].cliente = 2
        /\ db.reservas[<<1, 3>>].estado = "EN_COLA"
        /\ db.reservas[<<1, 3>>].cliente = 1
        /\ db.reservas[<<2, 1>>].estado = "ACTIVA"
        /\ db.reservas[<<2, 1>>].cliente = 2
        /\ db.reservas[<<2, 2>>].estado = "EN_COLA"
        /\ db.reservas[<<2, 2>>].cliente = 1
====
